---- MODULE Spec2Model ----
(***************************************************************************)
(* Model of one request served by Service.ValidatorsHandler                *)
(* (cosmos-exporter, package exporter).                                    *)
(*                                                                         *)
(* The handler starts three goroutines (validator pages + sort, bulk       *)
(* signing infos, staking params), waits on a sync.WaitGroup, then walks   *)
(* the collected validators once, setting gauges, and serves the registry. *)
(*                                                                         *)
(* Upstream answers are drawn when the call returns: the exporter never    *)
(* sees more of the chain than the responses it gets.                      *)
(***************************************************************************)
EXTENDS Integers, Sequences, FiniteSets, TLC

(***************************************************************************)
(* Bounds of the model.                                                    *)
(***************************************************************************)
MaxVals == 2        \* validators the upstream listing returns in total
MaxShares == 1      \* DelegatorShares.BigInt() ranges over 0..MaxShares
MaxMissed == 1      \* MissedBlocksCounter ranges over 0..MaxMissed
MaxSetLen == 2      \* Params.MaxValidators ranges over 0..MaxSetLen
Limit == 2          \* config.Limit, the page size of the requests
MaxHeight == 3      \* block heights range over 0..MaxHeight

(***************************************************************************)
(* stakingtypes.BondStatus                                                 *)
(***************************************************************************)
Unbonded == 1
Unbonding == 2
Bonded == 3

Statuses == {Unbonded, Unbonding, Bonded}

\* What a validator of an upstream page carries besides its position.
ValidatorData == [status : Statuses, jailed : BOOLEAN, shares : 0..MaxShares]

\* The empty consensus address: pubKey.String() of a nil ConsAddress.
NoAddr == 0

VARIABLES
    validators,        \* var validators []stakingtypes.Validator
    signingInfos,      \* var signingInfos []slashingtypes.ValidatorSigningInfo
    validatorSetLength,\* var validatorSetLength uint32
    offset,            \* offset of the validator page loop
    vpc, spc, ppc,     \* position of each goroutine: "run" or "done"
    fetchErr,          \* the validator goroutine returned on a fetch error
    wg,                \* sync.WaitGroup counter
    pc,                \* position of the handler: "wait", "pass", "done"
    index,             \* validators of the range loop already visited
    activeValidators,  \* activeValidators := 0
    statusGauge,       \* cosmos_validators_status, by address
    jailedGauge,       \* cosmos_validators_jailed, by address
    missedGauge,       \* cosmos_validators_missed_blocks, by address
    rankGauge,         \* cosmos_validators_rank, by address
    activeGauge,       \* cosmos_validators_active, by address
    lookups,           \* the SigningInfo single-record calls made so far
    served,            \* h.ServeHTTP(w, r) was called
    sigErr,            \* the signing-info goroutine returned on an error
    paramsErr,         \* the staking-params goroutine returned on an error
    requests,          \* Pagination.Offset of each Validators request issued
    sigRequests,       \* number of SigningInfos requests issued
    consAddrErr        \* addresses whose GetConsAddr returned an error

\* One request served by Service.UpgradeHandler.
VARIABLES
    upgradeRes,        \* upgradeRes.Plan: << >> for nil, else <<plan>>
    latestBlockHeight, \* cs.SyncInfo().LatestBlockHeight
    remainingHeight,   \* remainingHeight := upgradeHeight - latest
    upgradePlanGauge,  \* cosmos_upgrade_plan, by labels
    upgradeWg,         \* the handler's sync.WaitGroup counter
    upc,               \* goroutine: "plan", "status", "estimate", "done"
    hpc,               \* handler: "wait", "serve", "done"
    planErr,           \* CurrentPlan returned an error
    statusErr,         \* NewChainStatus returned an error
    estimateErr        \* EstimateBlockTime returned an error

validatorsVars ==
    <<validators, signingInfos, validatorSetLength, offset, vpc, spc, ppc,
      fetchErr, wg, pc, index, activeValidators, statusGauge, jailedGauge,
      missedGauge, rankGauge, activeGauge, lookups, served, sigErr,
      paramsErr, requests, sigRequests, consAddrErr>>

upgradeVars ==
    <<upgradeRes, latestBlockHeight, remainingHeight, upgradePlanGauge,
      upgradeWg, upc, hpc, planErr, statusErr, estimateErr>>

vars == <<validatorsVars, upgradeVars>>

gauges == <<statusGauge, jailedGauge, missedGauge, rankGauge, activeGauge>>

Min(a, b) == IF a < b THEN a ELSE b

EmptyGauge == << >>

\* GaugeVec.With(labels).Set(v): one series per address label.
GaugeSet(g, addr, v) == (addr :> v) @@ g

(***************************************************************************)
(* Validator.IsBonded()                                                    *)
(***************************************************************************)
IsBonded(v) == v.status = Bonded

\* Less without the two bonded-state branches.
LessSharesOnly(vi, vj) == vi.shares > vj.shares

\* Less comparing the shares after a conversion that drops the low digit.
LessTruncatedShares(vi, vj) ==
    IF ~(vi.status = Bonded) /\ (vj.status = Bonded) THEN FALSE
    ELSE IF (vi.status = Bonded) /\ ~(vj.status = Bonded) THEN TRUE
    ELSE (vi.shares \div 2) > (vj.shares \div 2)

(***************************************************************************)
(* The less function handed to sort.Slice.                                 *)
(***************************************************************************)
Less(vi, vj) ==
    IF ~IsBonded(vi) /\ IsBonded(vj) THEN FALSE
    ELSE IF IsBonded(vi) /\ ~IsBonded(vj) THEN TRUE
    ELSE vi.shares > vj.shares

Perms(n) == {p \in [1..n -> 1..n] : \A i, j \in 1..n : i # j => p[i] # p[j]}

IsSortedBy(s) == \A i, j \in 1..Len(s) : i < j => ~Less(s[j], s[i])

(***************************************************************************)
(* sort.Slice(validators, less): the slice is permuted into an order       *)
(* sorted by less.  sort.Slice "is not guaranteed to be stable: equal      *)
(* elements may be reversed from their original order", so every sorted    *)
(* permutation is an outcome.                                              *)
(***************************************************************************)
SortSlice(s) ==
    {t \in {[i \in 1..Len(s) |-> s[p[i]]] : p \in Perms(Len(s))} : IsSortedBy(t)}

\* UpgradeHandler before its goroutine's first call: wg.Add(1) is done.
UpgradeInit ==
    /\ upgradeRes = << >>
    /\ latestBlockHeight = 0
    /\ remainingHeight = 0
    /\ upgradePlanGauge = EmptyGauge
    /\ upgradeWg = 1
    /\ upc = "plan"
    /\ hpc = "wait"
    /\ planErr = FALSE
    /\ statusErr = FALSE
    /\ estimateErr = FALSE

Init ==
    /\ UpgradeInit
    /\ validators = << >>
    /\ signingInfos = << >>
    /\ validatorSetLength = 0
    /\ offset = 0
    /\ vpc = "run" /\ spc = "run" /\ ppc = "run"
    /\ fetchErr = FALSE
    /\ wg = 3
    /\ pc = "wait"
    /\ index = 0
    /\ activeValidators = 0
    /\ statusGauge = EmptyGauge
    /\ jailedGauge = EmptyGauge
    /\ missedGauge = EmptyGauge
    /\ rankGauge = EmptyGauge
    /\ activeGauge = EmptyGauge
    /\ lookups = << >>
    /\ served = FALSE
    /\ sigErr = FALSE
    /\ paramsErr = FALSE
    /\ requests = << >>
    /\ sigRequests = 0
    /\ consAddrErr = {}

\* offset += config.Limit
NextOffsetByLimit(vals, off) == off + Limit

\* offset = uint64(len(validators))
NextOffset(vals, off) == Len(vals)

(***************************************************************************)
(* Goroutine 1: one iteration of the page loop that got a non-empty page:  *)
(* the validators at the upstream positions offset+1 .. offset+k.          *)
(* A validator's operator address is its position in the upstream listing. *)
(***************************************************************************)
ValidatorsPage ==
    /\ vpc = "run"
    /\ \E k \in 1..Min(Limit, MaxVals - Len(validators)) :
         \E page \in [1..k -> ValidatorData] :
            validators' = validators \o
                [i \in 1..k |-> [addr |-> offset + i,
                                 status |-> page[i].status,
                                 jailed |-> page[i].jailed,
                                 shares |-> page[i].shares]]
    /\ requests' = Append(requests, offset)
    /\ offset' = NextOffset(validators', offset)
    /\ UNCHANGED <<signingInfos, validatorSetLength, vpc, spc, ppc, fetchErr, wg,
                   pc, index, activeValidators, gauges, lookups, served>>
    /\ UNCHANGED <<sigErr, paramsErr, sigRequests, consAddrErr>>
    /\ UNCHANGED upgradeVars

\* The error return without the deferred wg.Done.
ValidatorsErrorNoDone ==
    /\ vpc = "run"
    /\ vpc' = "done"
    /\ fetchErr' = TRUE
    /\ requests' = Append(requests, offset)
    /\ UNCHANGED <<validators, signingInfos, validatorSetLength, offset, spc, ppc,
                   wg, pc, index, activeValidators, gauges, lookups, served>>
    /\ UNCHANGED <<sigErr, paramsErr, sigRequests, consAddrErr>>
    /\ UNCHANGED upgradeVars

(***************************************************************************)
(* Goroutine 1: the request failed: log, return (deferred wg.Done).        *)
(***************************************************************************)
ValidatorsError ==
    /\ vpc = "run"
    /\ vpc' = "done"
    /\ fetchErr' = TRUE
    /\ wg' = wg - 1
    /\ requests' = Append(requests, offset)
    /\ UNCHANGED <<validators, signingInfos, validatorSetLength, offset, spc, ppc,
                   pc, index, activeValidators, gauges, lookups, served>>
    /\ UNCHANGED <<sigErr, paramsErr, sigRequests, consAddrErr>>
    /\ UNCHANGED upgradeVars

(***************************************************************************)
(* Goroutine 1: an empty page: break, sort.Slice, return (wg.Done).        *)
(***************************************************************************)
ValidatorsLastPage ==
    /\ vpc = "run"
    /\ validators' \in SortSlice(validators)
    /\ vpc' = "done"
    /\ wg' = wg - 1
    /\ requests' = Append(requests, offset)
    /\ UNCHANGED <<signingInfos, validatorSetLength, offset, spc, ppc, fetchErr,
                   pc, index, activeValidators, gauges, lookups, served>>
    /\ UNCHANGED <<sigErr, paramsErr, sigRequests, consAddrErr>>
    /\ UNCHANGED upgradeVars

(***************************************************************************)
(* Goroutine 2: the single SigningInfos request (Pagination.Limit only).   *)
(* The response holds at most Limit records, one per consensus address.    *)
(***************************************************************************)
SigningInfoPages ==
    {[i \in 1..Len(s) |-> [address |-> s[i], missed |-> m[s[i]]]] :
        s \in {t \in UNION {[1..k -> 1..MaxVals] : k \in 0..Limit} :
                 \A i, j \in 1..Len(t) : i < j => t[i] < t[j]},
        m \in [1..MaxVals -> 0..MaxMissed]}

SigningInfosOk ==
    /\ spc = "run"
    /\ signingInfos' \in SigningInfoPages
    /\ spc' = "done"
    /\ wg' = wg - 1
    /\ sigRequests' = sigRequests + 1
    /\ UNCHANGED <<validators, validatorSetLength, offset, vpc, ppc, fetchErr,
                   pc, index, activeValidators, gauges, lookups, served>>
    /\ UNCHANGED <<sigErr, paramsErr, requests, consAddrErr>>
    /\ UNCHANGED upgradeVars

SigningInfosError ==
    /\ spc = "run"
    /\ spc' = "done"
    /\ wg' = wg - 1
    /\ sigRequests' = sigRequests + 1
    /\ sigErr' = TRUE
    /\ UNCHANGED <<validators, signingInfos, validatorSetLength, offset, vpc, ppc,
                   fetchErr, pc, index, activeValidators, gauges, lookups, served>>
    /\ UNCHANGED <<paramsErr, requests, consAddrErr>>
    /\ UNCHANGED upgradeVars

(***************************************************************************)
(* Goroutine 3: the staking Params request.                                *)
(***************************************************************************)
ParamsOk ==
    /\ ppc = "run"
    /\ validatorSetLength' \in 0..MaxSetLen
    /\ ppc' = "done"
    /\ wg' = wg - 1
    /\ UNCHANGED <<validators, signingInfos, offset, vpc, spc, fetchErr,
                   pc, index, activeValidators, gauges, lookups, served>>
    /\ UNCHANGED <<sigErr, paramsErr, requests, sigRequests, consAddrErr>>
    /\ UNCHANGED upgradeVars

ParamsError ==
    /\ ppc = "run"
    /\ ppc' = "done"
    /\ wg' = wg - 1
    /\ paramsErr' = TRUE
    /\ UNCHANGED <<validators, signingInfos, validatorSetLength, offset, vpc, spc,
                   fetchErr, pc, index, activeValidators, gauges, lookups, served>>
    /\ UNCHANGED <<sigErr, requests, sigRequests, consAddrErr>>
    /\ UNCHANGED upgradeVars

\* The range loop started without waiting for the goroutines.
WaitNoBarrier ==
    /\ pc = "wait"
    /\ pc' = "pass"
    /\ index' = 0
    /\ activeValidators' = 0
    /\ UNCHANGED <<validators, signingInfos, validatorSetLength, offset, vpc, spc,
                   ppc, fetchErr, wg, gauges, lookups, served>>
    /\ UNCHANGED <<sigErr, paramsErr, requests, sigRequests, consAddrErr>>
    /\ UNCHANGED upgradeVars

(***************************************************************************)
(* wg.Wait() returns; activeValidators := 0; the range loop starts.        *)
(***************************************************************************)
Wait ==
    /\ pc = "wait"
    /\ wg = 0
    /\ pc' = "pass"
    /\ index' = 0
    /\ activeValidators' = 0
    /\ UNCHANGED <<validators, signingInfos, validatorSetLength, offset, vpc, spc,
                   ppc, fetchErr, wg, gauges, lookups, served>>
    /\ UNCHANGED <<sigErr, paramsErr, requests, sigRequests, consAddrErr>>
    /\ UNCHANGED upgradeVars

\* A search that takes the first record without comparing addresses.
FirstMatchAny(infos, key) == IF Len(infos) > 0 THEN 1 ELSE 0

(***************************************************************************)
(* The search of the bulk result: position of the first record whose       *)
(* Address equals pubKey.String(), 0 when there is none.                   *)
(***************************************************************************)
FirstMatch(infos, key) ==
    IF \E i \in 1..Len(infos) : infos[i].address = key
    THEN CHOOSE i \in 1..Len(infos) :
            /\ infos[i].address = key
            /\ \A j \in 1..(i - 1) : infos[j].address # key
    ELSE 0

(***************************************************************************)
(* Answers of slashingClient.SigningInfo for a consensus address: an       *)
(* error, or the record of that address.  The empty address is rejected    *)
(* by the upstream.                                                        *)
(***************************************************************************)
LookupResults(key) ==
    {[ok |-> FALSE, missed |-> 0]} \cup
    (IF key = NoAddr THEN {} ELSE {[ok |-> TRUE, missed |-> m] : m \in 0..MaxMissed})

\* The condition without the status test.
EmitsMissedAnyStatus(found, v) == found

\* if found && (validator.Status == stakingtypes.Bonded)
EmitsMissed(found, v) == found /\ v.status = Bonded

\* float64(index + 1)
RankValue(idx) == idx + 1

\* The active value without the capacity test.
ActiveValueNoCapacity(v, count, max) == IF v.jailed THEN 0 ELSE 1

\* The active value without the jailed test.
ActiveValueNoJailed(v, count, max) == IF count = max THEN 0 ELSE 1

\* The active value of Bonded validators only.
ActiveValueBondedOnly(v, count, max) ==
    IF count = max \/ v.jailed \/ v.status # Bonded THEN 0 ELSE 1

\* active := 1; if validator.Jailed {0}; if activeValidators == max {0}
ActiveValue(v, count, max) ==
    LET unlessJailed == IF v.jailed THEN 0 ELSE 1
    IN  IF count = max THEN 0 ELSE unlessJailed

\* The active-set block entered whatever the parameter.
ActiveSetAlways(max) == TRUE

\* if validatorSetLength != 0
ActiveSetEnabled(max) == max # 0

\* The same validator again after a failed single-record lookup.
RetryOnLookupError(idx, n) == idx

\* `break` in place of `continue`.
BreakOnLookupError(idx, n) == n

\* `continue` after a failed single-record lookup: on to the next validator.
AfterLookupError(idx, n) == idx + 1

(***************************************************************************)
(* The rest of the loop body once a signing info is at hand: missed        *)
(* blocks, rank, active.                                                   *)
(***************************************************************************)
EmitDerived(v, found, missed) ==
    /\ missedGauge' = IF EmitsMissed(found, v)
                      THEN GaugeSet(missedGauge, v.addr, missed)
                      ELSE missedGauge
    /\ rankGauge' = GaugeSet(rankGauge, v.addr, RankValue(index))
    /\ IF ActiveSetEnabled(validatorSetLength)
       THEN LET active == ActiveValue(v, activeValidators, validatorSetLength) IN
            /\ activeValidators' = activeValidators + active
            /\ activeGauge' = GaugeSet(activeGauge, v.addr, active)
       ELSE UNCHANGED <<activeValidators, activeGauge>>
    /\ index' = index + 1

(***************************************************************************)
(* The signing-info part of the loop body for the consensus address        *)
(* pubKey: search the bulk result, else ask for the single record; on an   *)
(* error `continue`, otherwise go on to missed blocks, rank and active.    *)
(***************************************************************************)
JoinSigningInfo(v, pubKey) ==
    LET m == FirstMatch(signingInfos, pubKey) IN
    IF m # 0
    THEN /\ EmitDerived(v, TRUE, signingInfos[m].missed)
         /\ UNCHANGED lookups
    ELSE \E r \in LookupResults(pubKey) :
            /\ lookups' = Append(lookups, [address |-> pubKey, at |-> index + 1,
                                           ok |-> r.ok, missed |-> r.missed])
            /\ IF r.ok
               THEN EmitDerived(v, TRUE, r.missed)
               ELSE /\ index' = AfterLookupError(index, Len(validators))
                    /\ UNCHANGED <<missedGauge, rankGauge, activeGauge,
                                   activeValidators>>

(***************************************************************************)
(* One iteration of `for index, validator := range validators`.            *)
(* GetConsAddr either yields the validator's consensus address or fails,   *)
(* leaving pubKey nil.                                                     *)
(***************************************************************************)
PassStep ==
    /\ pc = "pass"
    /\ index < Len(validators)
    /\ LET v == validators[index + 1] IN
       /\ statusGauge' = GaugeSet(statusGauge, v.addr, v.status)
       /\ jailedGauge' = GaugeSet(jailedGauge, v.addr, IF v.jailed THEN 1 ELSE 0)
       /\ \/ /\ JoinSigningInfo(v, v.addr)
             /\ UNCHANGED consAddrErr
          \/ /\ JoinSigningInfo(v, NoAddr)
             /\ consAddrErr' = consAddrErr \cup {v.addr}
    /\ UNCHANGED <<validators, signingInfos, validatorSetLength, offset, vpc, spc,
                   ppc, fetchErr, wg, pc, served>>
    /\ UNCHANGED <<sigErr, paramsErr, requests, sigRequests>>
    /\ UNCHANGED upgradeVars

(***************************************************************************)
(* The loop is over: promhttp.HandlerFor(registry).ServeHTTP(w, r).        *)
(***************************************************************************)
Serve ==
    /\ pc = "pass"
    /\ index >= Len(validators)
    /\ served' = TRUE
    /\ pc' = "done"
    /\ UNCHANGED <<validators, signingInfos, validatorSetLength, offset, vpc, spc,
                   ppc, fetchErr, wg, index, activeValidators, gauges, lookups>>
    /\ UNCHANGED <<sigErr, paramsErr, requests, sigRequests, consAddrErr>>
    /\ UNCHANGED upgradeVars

Next ==
    \/ ValidatorsPage
    \/ ValidatorsError
    \/ ValidatorsLastPage
    \/ SigningInfosOk
    \/ SigningInfosError
    \/ ParamsOk
    \/ ParamsError
    \/ Wait
    \/ PassStep
    \/ Serve

Spec == Init /\ [][Next]_vars

(***************************************************************************)
(* Every upstream call returns and the handler's goroutines are scheduled: *)
(* a step that can be taken is eventually taken.                           *)
(***************************************************************************)
LiveSpec == Spec /\ WF_vars(Next)

(***************************************************************************)
(* Service.UpgradeHandler: one goroutine asks for the current upgrade      *)
(* plan and the chain status and sets at most one cosmos_upgrade_plan      *)
(* series; the handler waits for it and serves the registry.               *)
(***************************************************************************)
PlanInfos == {"info-a", "info-b"}
PlanNames == {"v2", "v3"}

\* upgradetypes.Plan: the fields the handler reads.
Plans == [info : PlanInfos, name : PlanNames, height : 0..MaxHeight]

\* estimatedTime.Local().Format(time.RFC1123): the zero time when the
\* estimate failed, else some later time.
ZeroTime == "Mon, 01 Jan 0001 00:00:00 UTC"
EstimatedTimes == {"Thu, 05 Nov 2026 12:00:00 UTC", "Fri, 06 Nov 2026 12:00:00 UTC"}

Digits == <<"0", "1", "2", "3", "4", "5", "6", "7", "8", "9">>

\* strconv.FormatInt(n, 10) for n >= 0: the decimal digits, most
\* significant first.
RECURSIVE FormatInt(_)
FormatInt(n) ==
    IF n < 10 THEN <<Digits[n + 1]>>
    ELSE FormatInt(n \div 10) \o <<Digits[(n % 10) + 1]>>

\* The labels of the series set when there is nothing to count down to.
NoneLabels ==
    [info |-> "None", name |-> "None", height |-> << >>, estimated_time |-> ""]

\* The labels of the countdown series of a plan.
PlanLabels(plan, estimated) ==
    [info |-> plan.info, name |-> plan.name, height |-> FormatInt(plan.height),
     estimated_time |-> estimated]

\* The test that lets a plan at the latest height through.
PlanReachedStrict(remaining) == remaining < 0

\* if remainingHeight <= 0
PlanReached(remaining) == remaining <= 0

\* upgradeClient.CurrentPlan failed: log, return (deferred wg.Done).
CurrentPlanError ==
    /\ upc = "plan"
    /\ planErr' = TRUE
    /\ upc' = "done"
    /\ upgradeWg' = upgradeWg - 1
    /\ UNCHANGED <<upgradeRes, latestBlockHeight, remainingHeight,
                   upgradePlanGauge, hpc, statusErr, estimateErr>>
    /\ UNCHANGED validatorsVars

\* upgradeRes.Plan == nil: the "None" series is set to 0, return.
CurrentPlanNil ==
    /\ upc = "plan"
    /\ upgradeRes' = << >>
    /\ upgradePlanGauge' = GaugeSet(upgradePlanGauge, NoneLabels, 0)
    /\ upc' = "done"
    /\ upgradeWg' = upgradeWg - 1
    /\ UNCHANGED <<latestBlockHeight, remainingHeight, hpc, planErr, statusErr,
                   estimateErr>>
    /\ UNCHANGED validatorsVars

\* A plan came back: on to NewChainStatus.
CurrentPlanOk ==
    /\ upc = "plan"
    /\ \E plan \in Plans : upgradeRes' = <<plan>>
    /\ upc' = "status"
    /\ UNCHANGED <<latestBlockHeight, remainingHeight, upgradePlanGauge,
                   upgradeWg, hpc, planErr, statusErr, estimateErr>>
    /\ UNCHANGED validatorsVars

\* NewChainStatus failed: log, return.
ChainStatusError ==
    /\ upc = "status"
    /\ statusErr' = TRUE
    /\ upc' = "done"
    /\ upgradeWg' = upgradeWg - 1
    /\ UNCHANGED <<upgradeRes, latestBlockHeight, remainingHeight,
                   upgradePlanGauge, hpc, planErr, estimateErr>>
    /\ UNCHANGED validatorsVars

(***************************************************************************)
(* NewChainStatus answered: remainingHeight is computed (heights are not   *)
(* negative, so the int64 difference does not wrap); when it is not        *)
(* positive the "None" series is set to 0 and the goroutine returns.       *)
(***************************************************************************)
ChainStatusOk ==
    /\ upc = "status"
    /\ \E latest \in 0..MaxHeight :
          /\ latestBlockHeight' = latest
          /\ remainingHeight' = upgradeRes[1].height - latest
    /\ IF PlanReached(remainingHeight')
       THEN /\ upgradePlanGauge' = GaugeSet(upgradePlanGauge, NoneLabels, 0)
            /\ upc' = "done"
            /\ upgradeWg' = upgradeWg - 1
       ELSE /\ upc' = "estimate"
            /\ UNCHANGED <<upgradePlanGauge, upgradeWg>>
    /\ UNCHANGED <<upgradeRes, hpc, planErr, statusErr, estimateErr>>
    /\ UNCHANGED validatorsVars

(***************************************************************************)
(* cs.EstimateBlockTime returned, with an error (logged only) or a time:   *)
(* the plan's series is set to float64(remainingHeight), which is the      *)
(* same number for any height below 2^53; return.                          *)
(***************************************************************************)
EstimateAndSet ==
    /\ upc = "estimate"
    /\ \E failed \in BOOLEAN :
         \E estimated \in (IF failed THEN {ZeroTime} ELSE EstimatedTimes) :
            /\ estimateErr' = failed
            /\ upgradePlanGauge' =
                  GaugeSet(upgradePlanGauge, PlanLabels(upgradeRes[1], estimated),
                           remainingHeight)
    /\ upc' = "done"
    /\ upgradeWg' = upgradeWg - 1
    /\ UNCHANGED <<upgradeRes, latestBlockHeight, remainingHeight, hpc, planErr,
                   statusErr>>
    /\ UNCHANGED validatorsVars

\* wg.Wait() returns.
UpgradeWait ==
    /\ hpc = "wait"
    /\ upgradeWg = 0
    /\ hpc' = "serve"
    /\ UNCHANGED <<upgradeRes, latestBlockHeight, remainingHeight,
                   upgradePlanGauge, upgradeWg, upc, planErr, statusErr,
                   estimateErr>>
    /\ UNCHANGED validatorsVars

\* promhttp.HandlerFor(registry).ServeHTTP(w, r).
UpgradeServe ==
    /\ hpc = "serve"
    /\ hpc' = "done"
    /\ UNCHANGED <<upgradeRes, latestBlockHeight, remainingHeight,
                   upgradePlanGauge, upgradeWg, upc, planErr, statusErr,
                   estimateErr>>
    /\ UNCHANGED validatorsVars

UpgradeNext ==
    \/ CurrentPlanError
    \/ CurrentPlanNil
    \/ CurrentPlanOk
    \/ ChainStatusError
    \/ ChainStatusOk
    \/ EstimateAndSet
    \/ UpgradeWait
    \/ UpgradeServe

UpgradeSpec == Init /\ [][UpgradeNext]_vars

(***************************************************************************)
(* Vocabulary of the properties.                                           *)
(***************************************************************************)
Positions == 1..Len(validators)

Addresses == {validators[i].addr : i \in Positions}

\* The validator goroutine left its loop on an empty page and sorted.
FetchedAndSorted == vpc = "done" /\ ~fetchErr

\* Positions the range loop has been through.
Visited == IF pc = "wait" THEN {} ELSE 1..Min(index, Len(validators))

\* The single-record lookups issued for the validator at position i.
LookupsAt(i) == {k \in 1..Len(lookups) : lookups[k].at = i}

FailedLookupAt(i) == \E k \in LookupsAt(i) : ~lookups[k].ok

ActiveSeries == {a \in DOMAIN activeGauge : activeGauge[a] = 1}

NonJailedUpTo(i) == Cardinality({j \in 1..i : ~validators[j].jailed})

(***************************************************************************)
(* C1: when the request is served, the rank gauge holds one series per     *)
(* collected validator and the rank of the validator at position i of the  *)
(* sorted sequence is i, so the ranks are exactly 1..N, whatever the       *)
(* signing-info lookups returned.                                          *)
(***************************************************************************)
C1_RanksArePermutation ==
    pc = "done" =>
        /\ DOMAIN rankGauge = Addresses
        /\ \A i \in Positions : rankGauge[validators[i].addr] = i

(***************************************************************************)
(* C2: with maxValidators > 0, when the request is served the validators   *)
(* with active = 1 are exactly the first min(maxValidators, J) non-jailed  *)
(* validators of the sequence.                                             *)
(***************************************************************************)
C2_ActiveAreFirstNonJailed ==
    (pc = "done" /\ validatorSetLength > 0) =>
        ActiveSeries =
            {validators[i].addr :
                i \in {j \in Positions : /\ ~validators[j].jailed
                                         /\ NonJailedUpTo(j) <= validatorSetLength}}

(***************************************************************************)
(* C3: after a fetch that ended on an empty page, every Bonded validator   *)
(* stands before every validator that is not Bonded, whatever their        *)
(* shares.                                                                 *)
(***************************************************************************)
C3_BondedFirst ==
    FetchedAndSorted =>
        \A i, j \in Positions :
            (validators[i].status = Bonded /\ validators[j].status # Bonded) => i < j

\* A Bonded validator with fewer shares, listed later upstream, ranks first.
C3_Witness ==
    /\ pc = "done"
    /\ ~fetchErr
    /\ Len(validators) = 2
    /\ validators[1].addr = 2 /\ validators[1].status = Bonded
    /\ validators[1].shares = 0
    /\ validators[2].addr = 1 /\ validators[2].status = Unbonding
    /\ validators[2].shares = 1

(***************************************************************************)
(* C4: after a fetch that ended without error, of two validators with the  *)
(* same bonded-state the one with strictly more shares (compared as        *)
(* integers) stands first.                                                 *)
(***************************************************************************)
C4_SharesDescending ==
    FetchedAndSorted =>
        \A i, j \in Positions :
            ( /\ (validators[i].status = Bonded) = (validators[j].status = Bonded)
              /\ validators[i].shares > validators[j].shares ) => i < j

\* Two validators of equal bonded-state arrived in ascending share order.
C4_Witness ==
    /\ pc = "done"
    /\ ~fetchErr
    /\ Len(validators) = 2
    /\ validators[1].addr = 2 /\ validators[2].addr = 1
    /\ validators[1].status = Unbonded /\ validators[2].status = Unbonding
    /\ validators[1].shares > validators[2].shares

(***************************************************************************)
(* C5: the sort is stable: two validators with equal bonded-state and      *)
(* equal shares keep their upstream order.                                 *)
(***************************************************************************)
C5_SortIsStable ==
    FetchedAndSorted =>
        \A i, j \in Positions :
            ( /\ i < j
              /\ (validators[i].status = Bonded) = (validators[j].status = Bonded)
              /\ validators[i].shares = validators[j].shares )
            => validators[i].addr < validators[j].addr

(***************************************************************************)
(* C6: 0 <= activeValidators <= maxValidators at every point, the number   *)
(* of series with active = 1 equals activeValidators and never exceeds     *)
(* maxValidators.                                                          *)
(***************************************************************************)
C6_ActiveCountBounded ==
    /\ 0 <= activeValidators
    /\ activeValidators <= validatorSetLength
    /\ Cardinality(ActiveSeries) = activeValidators
    /\ Cardinality(ActiveSeries) <= validatorSetLength

\* Capacity ran out: a non-jailed validator was emitted with active = 0.
C6_Witness ==
    /\ pc = "done"
    /\ validatorSetLength = 1
    /\ activeValidators = 1
    /\ \E i \in Positions :
          /\ ~validators[i].jailed
          /\ validators[i].addr \in DOMAIN activeGauge
          /\ activeGauge[validators[i].addr] = 0

\* Every jailed validator with an active series has the value 0.
JailedInactive ==
    \A i \in Positions :
        (validators[i].jailed /\ validators[i].addr \in DOMAIN activeGauge)
            => activeGauge[validators[i].addr] = 0

\* A loop iteration over a jailed validator keeps the count.
JailedStepKeepsCount ==
    (pc = "pass" /\ index < Len(validators) /\ validators[index + 1].jailed)
        => activeValidators' = activeValidators

(***************************************************************************)
(* C7: no jailed validator has active = 1, and the loop iteration of a     *)
(* jailed validator leaves activeValidators as it was.                     *)
(***************************************************************************)
C7_JailedNeverActive == [](JailedInactive) /\ [][JailedStepKeepsCount]_vars

\* A jailed validator took rank 1 with capacity free; the next one is active.
C7_Witness ==
    /\ pc = "done"
    /\ Len(validators) = 2
    /\ validatorSetLength = 1
    /\ validators[1].jailed /\ ~validators[2].jailed
    /\ DOMAIN activeGauge = Addresses
    /\ activeGauge[validators[1].addr] = 0
    /\ activeGauge[validators[2].addr] = 1

(***************************************************************************)
(* C8: the missed-blocks gauge only holds series of Bonded validators.     *)
(***************************************************************************)
C8_MissedOnlyBonded ==
    \A i \in Positions :
        validators[i].addr \in DOMAIN missedGauge => validators[i].status = Bonded

\* An Unbonded validator matched in the bulk result and an Unbonding one
\* answered by the single-record lookup: neither has a missed-blocks series.
C8_Witness ==
    /\ pc = "done"
    /\ \E i, j \in Positions :
          /\ validators[i].status = Unbonded
          /\ LookupsAt(i) = {}
          /\ validators[i].addr \in DOMAIN rankGauge
          /\ validators[j].status = Unbonding
          /\ \E k \in LookupsAt(j) : lookups[k].ok
          /\ validators[j].addr \in DOMAIN rankGauge
    /\ missedGauge = EmptyGauge

(***************************************************************************)
(* C9: a Bonded validator answered by the single-record lookup gets the    *)
(* lookup record's counter as its missed-blocks value; a Bonded validator  *)
(* found in the bulk result gets the counter of its bulk record.           *)
(***************************************************************************)
C9_MissedFromRecord ==
    \A i \in Visited :
        validators[i].status = Bonded =>
            LET a == validators[i].addr IN
            /\ \A k \in LookupsAt(i) :
                  lookups[k].ok => (a \in DOMAIN missedGauge
                                    /\ missedGauge[a] = lookups[k].missed)
            /\ LookupsAt(i) = {} =>
                  /\ a \in DOMAIN missedGauge
                  /\ \E n \in 1..Len(signingInfos) :
                        /\ signingInfos[n].address = a
                        /\ signingInfos[n].missed = missedGauge[a]

\* One Bonded validator served from the lookup and one from the bulk
\* result, with different counters.
C9_Witness ==
    /\ pc = "done"
    /\ \E i, j \in Positions :
          /\ validators[i].status = Bonded /\ validators[j].status = Bonded
          /\ \E k \in LookupsAt(i) : lookups[k].ok /\ lookups[k].missed = 1
          /\ missedGauge[validators[i].addr] = 1
          /\ LookupsAt(j) = {}
          /\ \E n \in 1..Len(signingInfos) :
                /\ signingInfos[n].address = validators[j].addr
                /\ signingInfos[n].missed = 0
          /\ missedGauge[validators[j].addr] = 0

(***************************************************************************)
(* C10: a validator whose single-record lookup failed has its base series  *)
(* (status, jailed) set and no missed-blocks series; the loop goes on to   *)
(* every later validator; the handler is never stuck and ends by serving   *)
(* the response.                                                           *)
(***************************************************************************)
C10_LookupFailureTolerated ==
    /\ \A i \in Positions :
          FailedLookupAt(i) =>
              /\ validators[i].addr \in DOMAIN statusGauge
              /\ validators[i].addr \in DOMAIN jailedGauge
              /\ validators[i].addr \notin DOMAIN missedGauge
    /\ pc = "pass" => ENABLED (PassStep \/ Serve)
    /\ pc = "done" =>
          /\ served
          /\ DOMAIN statusGauge = Addresses
          /\ DOMAIN jailedGauge = Addresses

\* The first validator's lookup failed; the second one, Bonded, was still
\* processed in full and the response was served.
C10_Witness ==
    /\ pc = "done"
    /\ served
    /\ Len(validators) = 2
    /\ FailedLookupAt(1)
    /\ validators[1].status = Bonded
    /\ validators[2].status = Bonded
    /\ validators[2].addr \in DOMAIN missedGauge
    /\ rankGauge[validators[2].addr] = 2

(***************************************************************************)
(* C11: when the staking-params request failed, or returned 0, the pass    *)
(* runs with validatorSetLength = 0: no active series is ever set and      *)
(* activeValidators stays 0, while status, jailed, missed blocks and rank  *)
(* are set as in any other request.                                        *)
(***************************************************************************)
C11_NoActiveWithoutParams ==
    /\ paramsErr => validatorSetLength = 0
    /\ validatorSetLength = 0 =>
          /\ activeGauge = EmptyGauge
          /\ activeValidators = 0
          /\ \A i \in Visited :
                LET a == validators[i].addr IN
                /\ a \in DOMAIN statusGauge
                /\ a \in DOMAIN jailedGauge
                /\ ~FailedLookupAt(i) =>
                      /\ a \in DOMAIN rankGauge
                      /\ rankGauge[a] = i
                      /\ validators[i].status = Bonded => a \in DOMAIN missedGauge

\* The params request failed; two non-jailed validators were ranked and
\* none has an active series.
C11_Witness ==
    /\ pc = "done"
    /\ paramsErr
    /\ Len(validators) = 2
    /\ \A i \in Positions : ~validators[i].jailed
    /\ DOMAIN rankGauge = Addresses
    /\ activeGauge = EmptyGauge

\* Every Validators request carries the number of validators held so far.
RequestAtAccumulated ==
    requests' # requests => requests' = Append(requests, Len(validators))

\* The request that brings nothing ends the loop; a page is appended whole.
StopsOnEmptyOrError ==
    requests' # requests =>
        /\ Len(validators') = Len(validators) => vpc' = "done"
        /\ vpc' = "run" =>
              /\ Len(validators') > Len(validators)
              /\ SubSeq(validators', 1, Len(validators)) = validators

\* Once the goroutine is over: no request, and the collection stays.
NoRequestAfterStop ==
    vpc = "done" => (requests' = requests /\ validators' = validators /\ vpc' = "done")

\* The collection holds the upstream positions 1..n, in request order until
\* it is sorted.
CollectedInRequestOrder ==
    /\ Addresses = 1..Len(validators)
    /\ (vpc = "run" \/ fetchErr) => \A i \in Positions : validators[i].addr = i
    /\ requests # << >> => requests[1] = 0
    /\ pc = "done" => DOMAIN statusGauge = Addresses

(***************************************************************************)
(* C12: the first Validators request has offset 0 and every later one the  *)
(* number of validators accumulated so far; the loop ends with the first   *)
(* empty page or error and asks nothing afterwards; what was collected is  *)
(* the pages received, in request order, and it is what the pass walks.    *)
(***************************************************************************)
C12_PageLoop ==
    /\ [](CollectedInRequestOrder)
    /\ [][RequestAtAccumulated /\ StopsOnEmptyOrError /\ NoRequestAfterStop]_vars

\* Two pages of one validator, then the empty page.
C12_Witness ==
    /\ pc = "done"
    /\ ~fetchErr
    /\ requests = <<0, 1, 2>>
    /\ Len(validators) = 2

(***************************************************************************)
(* C13: the signing-info fetch is a page loop like the validator fetch:    *)
(* after a non-empty page it asks for the next one, so it only ends after  *)
(* an empty page or an error.                                              *)
(***************************************************************************)
C13_SigningInfosPaginated ==
    (spc = "done" /\ ~sigErr /\ signingInfos # << >>) => sigRequests > 1

(***************************************************************************)
(* C14: when the validator fetch ended on an error with validators already *)
(* accumulated, the pass still gets them sorted: Bonded first, then by     *)
(* descending shares.                                                      *)
(***************************************************************************)
C14_PartialResultSorted ==
    (pc # "wait" /\ fetchErr /\ Len(validators) >= 1) =>
        \A i, j \in Positions :
            i < j =>
                /\ ~(validators[i].status # Bonded /\ validators[j].status = Bonded)
                /\ ((validators[i].status = Bonded) = (validators[j].status = Bonded))
                      => validators[i].shares >= validators[j].shares

\* The range loop has begun only once the three goroutines were over.
BarrierPassed ==
    pc # "wait" => (vpc = "done" /\ spc = "done" /\ ppc = "done" /\ wg = 0)

\* A slot is written by its own goroutine, while that goroutine runs and
\* before the barrier; before the barrier nothing is emitted, looked up or
\* served.
SlotsOwned ==
    /\ validators' # validators => (vpc = "run" /\ pc = "wait")
    /\ signingInfos' # signingInfos => (spc = "run" /\ pc = "wait")
    /\ validatorSetLength' # validatorSetLength => (ppc = "run" /\ pc = "wait")
    /\ validators' # validators =>
          (signingInfos' = signingInfos /\ validatorSetLength' = validatorSetLength)
    /\ signingInfos' # signingInfos =>
          (validators' = validators /\ validatorSetLength' = validatorSetLength)
    /\ validatorSetLength' # validatorSetLength =>
          (validators' = validators /\ signingInfos' = signingInfos)
    /\ pc' = "wait" =>
          (gauges' = gauges /\ lookups' = lookups /\ index' = index /\ ~served')

(***************************************************************************)
(* C15: the range loop and the response start only after the three         *)
(* goroutines are over, whatever the interleaving and whether they         *)
(* succeeded; each of the three slots is written by its goroutine only     *)
(* and nothing reads or writes a slot before the barrier.                  *)
(***************************************************************************)
C15_WaitGroupBarrier ==
    /\ [](BarrierPassed)
    /\ [](served => pc = "done")
    /\ [][SlotsOwned]_vars

\* Served after the validator goroutine failed with one validator held and
\* the two others succeeded.
C15_Witness ==
    /\ served
    /\ fetchErr /\ ~sigErr /\ ~paramsErr
    /\ Len(validators) = 1
    /\ DOMAIN statusGauge = Addresses

PosOf(a) == CHOOSE i \in Positions : validators[i].addr = a

(***************************************************************************)
(* C16: for a validator whose consensus address could not be derived, the  *)
(* signing-info join is skipped (no single-record lookup is issued) and no *)
(* missed-blocks series is set, while its other series, rank included,     *)
(* are set.                                                                *)
(***************************************************************************)
C16_NoJoinWithoutConsAddr ==
    \A a \in consAddrErr :
        /\ LookupsAt(PosOf(a)) = {}
        /\ a \notin DOMAIN missedGauge
        /\ a \in DOMAIN statusGauge
        /\ a \in DOMAIN jailedGauge
        /\ a \in DOMAIN rankGauge

BulkAddresses == {signingInfos[k].address : k \in 1..Len(signingInfos)}

\* The consensus address of the validator at position i is in the bulk result.
InBulk(i) ==
    /\ validators[i].addr \notin consAddrErr
    /\ validators[i].addr \in BulkAddresses

\* One lookup for each visited validator missing from the bulk result, none
\* for the others; the lookups follow the order of the sorted sequence.
OneLookupPerAbsent ==
    /\ pc = "wait" => lookups = << >>
    /\ \A i \in Visited :
          /\ InBulk(i) => LookupsAt(i) = {}
          /\ ~InBulk(i) => Cardinality(LookupsAt(i)) = 1
          /\ \A k \in LookupsAt(i) :
                lookups[k].address \in {validators[i].addr, NoAddr} \ BulkAddresses
    /\ \A k \in 1..Len(lookups) : lookups[k].at \in Visited
    /\ \A k, l \in 1..Len(lookups) : k < l => lookups[k].at < lookups[l].at

\* A step issues at most one lookup, whose answer it has before it ends.
OneLookupAtATime ==
    lookups' # lookups =>
        /\ pc = "pass"
        /\ Len(lookups') = Len(lookups) + 1
        /\ SubSeq(lookups', 1, Len(lookups)) = lookups
        /\ lookups'[Len(lookups')].at = index + 1

(***************************************************************************)
(* C17: one single-record lookup for every validator whose consensus       *)
(* address is absent from the bulk result, none for one that is present;   *)
(* lookups happen after the barrier, in the order of the sorted            *)
(* validators, one at a time, and a failed one is not repeated.            *)
(***************************************************************************)
C17_OneLookupPerAbsent ==
    /\ [](OneLookupPerAbsent)
    /\ [][OneLookupAtATime]_vars

\* Served: the first validator was in the bulk result, the second was not
\* and its lookup failed.
C17_Witness ==
    /\ pc = "done"
    /\ Len(validators) = 2
    /\ InBulk(1)
    /\ ~InBulk(2)
    /\ validators[2].addr \notin consAddrErr
    /\ Len(lookups) = 1
    /\ ~lookups[1].ok

\* The iteration at hand reaches the active block with room left, for a
\* validator that is neither jailed nor Bonded.
NonBondedReachesActive ==
    /\ pc = "pass"
    /\ index < Len(validators)
    /\ index' = index + 1
    /\ validatorSetLength > 0
    /\ activeValidators < validatorSetLength
    /\ ~validators[index + 1].jailed
    /\ validators[index + 1].status # Bonded
    /\ validators[index + 1].addr \in DOMAIN rankGauge'

(***************************************************************************)
(* C18: the active value does not depend on the bonding status: with       *)
(* validatorSetLength > 0, a non-jailed validator that is not Bonded and   *)
(* reaches the active block while activeValidators < validatorSetLength    *)
(* gets active = 1 and adds one to activeValidators.                       *)
(***************************************************************************)
C18_ActiveNotGatedOnBonded ==
    [][NonBondedReachesActive =>
          /\ activeGauge'[validators[index + 1].addr] = 1
          /\ activeValidators' = activeValidators + 1]_vars

\* An Unbonded validator, not jailed, has active = 1.
C18_Witness ==
    /\ pc = "done"
    /\ \E i \in Positions :
          /\ validators[i].status = Unbonded
          /\ ~validators[i].jailed
          /\ validators[i].addr \in DOMAIN activeGauge
          /\ activeGauge[validators[i].addr] = 1
          /\ activeValidators >= 1

\* Requests whose page was not empty.
NonEmptyPages ==
    {k \in 1..Len(requests) :
        (IF k < Len(requests) THEN requests[k + 1] ELSE offset) > requests[k]}

\* The page loop asks once more than it got non-empty pages, at most.
RequestsBounded ==
    /\ Len(requests) <= Cardinality(NonEmptyPages) + 1
    /\ Len(requests) <= MaxVals + 1
    /\ pc = "done" => index = Len(validators)

\* The range loop moves one validator forward at a time and never back.
VisitsOnce ==
    index' # index => (pc = "pass" /\ index' = index + 1 /\ index' <= Len(validators))

(***************************************************************************)
(* C19: every request is eventually served, provided the upstream calls    *)
(* return: the page loop asks at most once more than it got non-empty      *)
(* pages, the barrier is passed even when goroutines fail, and the range   *)
(* loop goes through each collected validator once.                        *)
(***************************************************************************)
C19_RequestTerminates ==
    /\ <>(pc = "done" /\ served)
    /\ (wg = 3) ~> (pc # "wait")
    /\ [](RequestsBounded)
    /\ [][VisitsOnce]_vars

\* Served although the three goroutines failed, the first one with a
\* validator already held.
C19_Witness ==
    /\ pc = "done"
    /\ served
    /\ fetchErr /\ sigErr /\ paramsErr
    /\ Len(validators) = 1
    /\ Len(requests) = 2
    /\ index = 1

\* The plan came back and so did the chain status.
PlanAndStatus == upgradeRes # << >> /\ ~statusErr /\ upc \in {"estimate", "done"}

\* The series the upgrade goroutine leaves, by what the upstream answered.
UpgradeSeries ==
    upc = "done" =>
        /\ (planErr \/ statusErr) => upgradePlanGauge = EmptyGauge
        /\ (~planErr /\ upgradeRes = << >>) =>
              (DOMAIN upgradePlanGauge = {NoneLabels} /\ upgradePlanGauge[NoneLabels] = 0)
        /\ (PlanAndStatus /\ upgradeRes[1].height - latestBlockHeight <= 0) =>
              (DOMAIN upgradePlanGauge = {NoneLabels} /\ upgradePlanGauge[NoneLabels] = 0)
        /\ (PlanAndStatus /\ upgradeRes[1].height - latestBlockHeight > 0) =>
              /\ Cardinality(DOMAIN upgradePlanGauge) = 1
              /\ \A l \in DOMAIN upgradePlanGauge :
                    /\ l.info = upgradeRes[1].info
                    /\ l.name = upgradeRes[1].name
                    /\ l.height = FormatInt(upgradeRes[1].height)
                    /\ upgradePlanGauge[l] = upgradeRes[1].height - latestBlockHeight
                    /\ upgradePlanGauge[l] > 0

(***************************************************************************)
(* C20: an upgrade request sets at most one cosmos_upgrade_plan series,    *)
(* never negative: none when the plan or the chain-status call failed;     *)
(* the "None"/"None" series at 0 when there is no plan or the plan height  *)
(* is not above the latest height; else the series of the plan's info,     *)
(* name and height at plan height - latest height (> 0), also when the     *)
(* time estimate failed.  The response is served after the goroutine.      *)
(***************************************************************************)
C20_UpgradePlanSeries ==
    /\ Cardinality(DOMAIN upgradePlanGauge) <= 1
    /\ \A l \in DOMAIN upgradePlanGauge : upgradePlanGauge[l] >= 0
    /\ upc # "done" => upgradePlanGauge = EmptyGauge
    /\ UpgradeSeries
    /\ hpc # "wait" => (upc = "done" /\ upgradeWg = 0)

\* Served with the countdown series of a plan whose time estimate failed.
C20_Witness ==
    /\ hpc = "done"
    /\ estimateErr
    /\ upgradeRes # << >>
    /\ PlanLabels(upgradeRes[1], ZeroTime) \in DOMAIN upgradePlanGauge
    /\ upgradePlanGauge[PlanLabels(upgradeRes[1], ZeroTime)] = 2

====
